---- MODULE Spec2Model ----
(***************************************************************************)
(* A model of src/fw/biostables.c: the relocation of the PIR, MPTable,     *)
(* ACPI RSDP and SMBIOS entry-point tables into the f-segment, the ACPI    *)
(* table lookup and reset register, the SMBIOS structure iterator and the  *)
(* SMBIOS table builder.                                                   *)
(*                                                                         *)
(* Memory is modelled byte by byte.  A byte is a number in 0..255, a       *)
(* table is a sequence of bytes, multi-byte fields are little endian.      *)
(* The module holds several specifications, one per group of operations:   *)
(*   SpecCopy   copy_pir, copy_mptable, copy_acpi_rsdp, copy_smbios_21,    *)
(*              copy_smbios_30, copy_table                                 *)
(*   SpecIter   smbios_next                                                *)
(*   SpecScan   get_acpi_rsdp_length, find_acpi_rsdp                       *)
(*   SpecFind   find_acpi_table                                            *)
(*   SpecReset  find_acpi_features, acpi_set_reset_reg, acpi_reboot        *)
(*   SpecBuild  smbios_romfile_setup, smbios_21_setup_entry_point,         *)
(*              smbios_30_setup_entry_point, smbios_build_tables,          *)
(*              smbios_new_type_0                                          *)
(***************************************************************************)
EXTENDS Integers, Sequences, FiniteSets, TLC

VARIABLES
    \* ---- registered tables and the f-segment (SpecCopy)
    PirAddr,        \* struct pir_header *PirAddr              (0 is NULL)
    RsdpAddr,       \* struct rsdp_descriptor *RsdpAddr
    SMBios21Addr,   \* struct smbios_21_entry_point *SMBios21Addr
    SMBios30Addr,   \* struct smbios_30_entry_point *SMBios30Addr
    fseg,           \* the blocks malloc_fseg handed out, oldest first
    call,           \* the last call made: its name, its argument, what it saw
    \* ---- one walk of smbios_next over a structure table (SpecIter)
    it_tbl,         \* the table: its bytes, and the byte memory holds around it
    it_start,       \* the start argument (0 is NULL)
    it_structs,     \* whether the table is well-formed, and its structures
    it_seen,        \* the non-NULL results so far, in order
    it_last,        \* the last call: its prev argument, its result, its reads
    \* ---- the search for the RSDP in the f-segment zone (SpecScan)
    sc_img,         \* the bytes of memory from ScanBase on
    sc_start,       \* SYMBOL(zonefseg_start)
    sc_end,         \* SYMBOL(zonefseg_end)
    sc_last,        \* the last call: its name, arguments, result, reads
    \* ---- the ACPI tables and the reset register (SpecFind, SpecReset)
    ac_mem,         \* the ACPI tables in memory: address -> the bytes there
    ac_last,        \* the last find_acpi_table call: signature and result
    acpi_reset_reg, \* static struct acpi_20_generic_address acpi_reset_reg
    acpi_reset_val, \* static u8 acpi_reset_val
    acpi_pm1a_cnt,  \* u32 acpi_pm1a_cnt
    ac_pmtimer,     \* the port last handed to pmtimer_setup
    ac_write,       \* what the last acpi_reboot wrote
    ac_accepted,    \* the reset descriptor last accepted, as the FADT held it
    \* ---- the SMBIOS tables built from the romfiles (SpecBuild)
    f_anchor,       \* romfile "etc/smbios/smbios-anchor": present, its data
    f_tables,       \* romfile "etc/smbios/smbios-tables": present, its data
    VERSION,        \* const char VERSION[], the build's version string
    high,           \* the blocks malloc_high handed out, oldest first
    bd_last,        \* the last smbios_romfile_setup call and what it built
    legacy,         \* whether smbios_setup called smbios_legacy_setup
    gt_last         \* the last smbios_get_tables call: its result and *length

copyVars == <<PirAddr, RsdpAddr, SMBios21Addr, SMBios30Addr, fseg, call>>
iterVars == <<it_tbl, it_start, it_structs, it_seen, it_last>>
scanVars == <<sc_img, sc_start, sc_end, sc_last>>
acpiVars == <<ac_mem, ac_last, acpi_reset_reg, acpi_reset_val, acpi_pm1a_cnt,
              ac_pmtimer, ac_write, ac_accepted>>
buildVars == <<f_anchor, f_tables, VERSION, high, bd_last, legacy, gt_last>>
vars == <<copyVars, iterVars, scanVars, acpiVars, buildVars>>

(***************************************************************************)
(* Bytes, little-endian fields, checksum                                   *)
(***************************************************************************)
Byte == 0..255

\* the element of the one-element set S: TheOne({e(x) : x \in {v}}) is e(v),
\* with v worked out once
TheOne(S) == CHOOSE x \in S : TRUE

RECURSIVE SumBytes(_)
SumBytes(s) == IF s = <<>> THEN 0 ELSE s[1] + SumBytes(Tail(s))

\* u8 checksum(void *buf, u32 len): the sum of the bytes modulo 256
checksum(buf, len) == SumBytes(SubSeq(buf, 1, len)) % 256

Fill(n, b) == [i \in 1..n |-> b]

LE16(v) == <<v % 256, (v \div 256) % 256>>
LE32(v) == <<v % 256, (v \div 256) % 256, (v \div 65536) % 256, (v \div 16777216) % 256>>

\* the fields read back: off is the field's byte offset in the table
RdU8(m, off)  == m[off + 1]
RdU16(m, off) == m[off + 1] + 256 * m[off + 2]
RdU32(m, off) == m[off + 1] + 256 * m[off + 2] + 65536 * m[off + 3] + 16777216 * m[off + 4]
RdBytes(m, off, n) == SubSeq(m, off + 1, off + n)

\* m with the n = Len(v) bytes at offset off replaced by v (memcpy into m)
WrBytes(m, off, v) ==
    TheOne({ [i \in 1..Len(x) |-> IF i > off /\ i <= off + Len(v) THEN v[i - off] ELSE x[i]] :
             x \in {m} })

\* s with the byte at offset off chosen so that the first n bytes sum to 0
WithSum0(s, off, n) ==
    LET z == WrBytes(s, off, <<0>>)
    IN  WrBytes(z, off, <<(256 - checksum(z, n)) % 256>>)

(***************************************************************************)
(* Signatures                                                              *)
(***************************************************************************)
PIR_SIGNATURE       == <<36, 80, 73, 82>>               \* "$PIR"
MPTABLE_SIGNATURE   == <<95, 77, 80, 95>>               \* "_MP_"
MPCONFIG_SIGNATURE  == <<80, 67, 77, 80>>               \* "PCMP"
RSDP_SIGNATURE      == <<82, 83, 68, 32, 80, 84, 82, 32>>  \* "RSD PTR "
SMBIOS_21_SIGNATURE == <<95, 83, 77, 95>>               \* "_SM_"
DMI_ANCHOR          == <<95, 68, 77, 73, 95>>           \* "_DMI_"
SMBIOS_30_ANCHOR    == <<95, 83, 77, 51, 95>>           \* "_SM3_"
BadSignature        == <<88, 88, 88, 88>>

(***************************************************************************)
(* Structure sizes and field offsets                                       *)
(***************************************************************************)
SizeofPir   == 32      \* sizeof(struct pir_header)
PirSizeOff  == 6       \* pir_header.size
PirSumOff   == 31      \* pir_header.checksum
SizeofMpf   == 16      \* sizeof(struct mptable_floating_s)
MpfPhysOff  == 4       \* mptable_floating_s.physaddr
MpfLenOff   == 8       \* mptable_floating_s.length
MpfSumOff   == 10      \* mptable_floating_s.checksum
MpcLenOff   == 4       \* mptable_config_s.length
RsdpSumOff  == 8       \* rsdp_descriptor.checksum
RsdpRevOff  == 15      \* rsdp_descriptor.revision
RsdpRsdtOff == 16      \* rsdp_descriptor.rsdt_physical_address
RsdpLenOff  == 20      \* rsdp_descriptor.length
RsdpXsdtOff == 24      \* rsdp_descriptor.xsdt_physical_address
RsdpXSumOff == 32      \* rsdp_descriptor.extended_checksum
SizeofRsdp  == 36      \* sizeof(struct rsdp_descriptor)
SizeofEp21  == 31      \* sizeof(struct smbios_21_entry_point)
Ep21SumOff  == 4       \* smbios_21_entry_point.checksum
Ep21LenOff  == 5       \* smbios_21_entry_point.length
Ep21MaxOff  == 8       \* smbios_21_entry_point.max_structure_size
Ep21DmiOff  == 16      \* smbios_21_entry_point.intermediate_anchor_string
Ep21ISumOff == 21      \* smbios_21_entry_point.intermediate_checksum
Ep21TLenOff == 22      \* smbios_21_entry_point.structure_table_length
Ep21TAdrOff == 24      \* smbios_21_entry_point.structure_table_address
Ep21NumOff  == 28      \* smbios_21_entry_point.number_of_structures
SizeofEp30  == 24      \* sizeof(struct smbios_30_entry_point)
Ep30SumOff  == 5       \* smbios_30_entry_point.checksum
Ep30LenOff  == 6       \* smbios_30_entry_point.length
Ep30MaxOff  == 12      \* smbios_30_entry_point.structure_table_max_size
Ep30TAdrOff == 16      \* smbios_30_entry_point.structure_table_address

BUILD_MAX_MPTABLE_FSEG == 600

(***************************************************************************)
(* The f-segment allocator.  malloc_fseg hands out consecutive blocks of a *)
(* pool of st.zone bytes starting at FsegBase and returns NULL when the    *)
(* pool cannot hold the request.  A block is [addr, bytes, name].          *)
(***************************************************************************)
FsegBase == 15 * 65536
FsegSize == 64

RECURSIVE FsegUsed(_)
FsegUsed(blocks) ==
    IF blocks = <<>> THEN 0 ELSE Len(blocks[1].bytes) + FsegUsed(Tail(blocks))

\* void *malloc_fseg(u32 size): the new block's address, or 0
malloc_fseg(st, size) ==
    IF FsegUsed(st.fseg) + size <= st.zone THEN FsegBase + FsegUsed(st.fseg) ELSE 0

\* the bytes of the block at addr
BlockAt(blocks, addr) ==
    blocks[CHOOSE i \in 1..Len(blocks) : blocks[i].addr = addr].bytes

(***************************************************************************)
(* The memory the candidates live in.  RAM[pos] is the sequence of bytes   *)
(* found at address pos and after it.  The candidates are built so that    *)
(* every length the code reads from them stays inside RAM[pos].            *)
(***************************************************************************)
MkPir(size, tag) ==
    WithSum0(PIR_SIGNATURE \o <<0, 1>> \o LE16(size) \o Fill(24, tag)
                 \o Fill(size - SizeofPir, tag),
             PirSumOff, size)

MkMpf(physaddr, len, tag) ==
    WithSum0(MPTABLE_SIGNATURE \o LE32(physaddr) \o <<len, 4, 0>> \o Fill(5, tag),
             MpfSumOff, SizeofMpf) \o Fill(16, tag)

MkMpc(len, tag) == MPCONFIG_SIGNATURE \o LE16(len) \o <<4, 0>> \o Fill(len - 8, tag)

MkRsdp(rev, len, rsdt, xsdtLo, xsdtHi) ==
    LET first == WithSum0(RSDP_SIGNATURE \o <<0>> \o Fill(6, 65) \o <<rev>> \o LE32(rsdt),
                          RsdpSumOff, 20)
    IN  IF rev > 1
        THEN WithSum0(first \o LE32(len) \o LE32(xsdtLo) \o LE32(xsdtHi) \o <<0, 0, 0, 0>>
                          \o Fill(len - SizeofRsdp, 0),
                      RsdpXSumOff, len)
        ELSE first

MkEp21(len, tlen, taddr, tag) ==
    WithSum0(
        WithSum0(SMBIOS_21_SIGNATURE \o <<0, len, 2, tag>> \o LE16(tlen) \o Fill(6, 0)
                     \o DMI_ANCHOR \o <<0>> \o LE16(tlen) \o LE32(taddr) \o <<1, 0, 40>>,
                 Ep21SumOff, 16),
        Ep21ISumOff, SizeofEp21)

MkEp30(len, tmax, taddr, tag) ==
    WithSum0(SMBIOS_30_ANCHOR \o <<0, len, 3, tag, 0, 1, 0>> \o LE32(tmax)
                 \o LE32(taddr) \o LE32(0),
             Ep30SumOff, len)

\* a table whose checksum byte is off by one
Spoil(s, off) == WrBytes(s, off, <<(RdU8(s, off) + 1) % 256>>)

\* the k-th position of the candidates' memory
Pos(k) == 4096 + 256 * k

PosPirA    == Pos(0)      \* a valid PIR table, header only
PosPirB    == Pos(1)      \* a valid PIR table with one slot
PosPirBad  == Pos(2)      \* a PIR table with a bad checksum
PosPirSml  == Pos(3)      \* a PIR table whose size is below the header's
PosMpf1    == Pos(4)      \* floating pointer, length 1, config of 16 bytes
PosMpf2    == Pos(5)      \* floating pointer, length 2, config of 20 bytes
PosMpf0    == Pos(6)      \* floating pointer, length 0, config of 16 bytes
PosMpfBig  == Pos(7)      \* floating pointer whose config exceeds the maximum
PosMpfNul  == Pos(8)      \* floating pointer with physaddr 0
PosMpfBad  == Pos(9)      \* floating pointer with a bad checksum
PosMpcA    == Pos(10)     \* config table, 16 bytes
PosMpcB    == Pos(11)     \* config table, 20 bytes
PosMpcBig  == Pos(12)     \* config table declaring 600 bytes
PosRsdp1   == Pos(13)     \* a valid revision 0 RSDP
PosRsdp2   == Pos(14)     \* a valid revision 2 RSDP
PosRsdpBad == Pos(15)     \* a revision 2 RSDP with a bad extended checksum
PosEp21A   == Pos(16)     \* a valid SMBIOS 2.1 entry point
PosEp21B   == Pos(17)     \* another valid SMBIOS 2.1 entry point
PosEp21Bad == Pos(18)     \* an SMBIOS 2.1 entry point with a bad intermediate checksum
PosEp30A   == Pos(19)     \* a valid SMBIOS 3.0 entry point
PosEp30B   == Pos(20)     \* another valid SMBIOS 3.0 entry point
PosEp30Bad == Pos(21)     \* an SMBIOS 3.0 entry point with a bad checksum

RAM ==
    (PosPirA :> MkPir(32, 7)) @@ (PosPirB :> MkPir(48, 9)) @@
    (PosPirBad :> Spoil(MkPir(32, 7), PirSumOff)) @@
    (PosPirSml :> MkPir(16, 3) \o Fill(16, 3)) @@
    (PosMpf1 :> MkMpf(PosMpcA, 1, 5)) @@ (PosMpf2 :> MkMpf(PosMpcB, 2, 6)) @@
    (PosMpf0 :> MkMpf(PosMpcA, 0, 8)) @@ (PosMpfBig :> MkMpf(PosMpcBig, 1, 5)) @@
    (PosMpfNul :> MkMpf(0, 1, 5)) @@ (PosMpfBad :> Spoil(MkMpf(PosMpcA, 1, 5), MpfSumOff)) @@
    (PosMpcA :> MkMpc(16, 17)) @@ (PosMpcB :> MkMpc(20, 19)) @@
    (PosMpcBig :> MPCONFIG_SIGNATURE \o LE16(600) \o <<4, 0>>) @@
    (PosRsdp1 :> MkRsdp(0, 0, 256, 0, 0)) @@ (PosRsdp2 :> MkRsdp(2, 36, 256, 512, 0)) @@
    (PosRsdpBad :> Spoil(MkRsdp(2, 36, 256, 512, 0), RsdpXSumOff)) @@
    (PosEp21A :> MkEp21(31, 64, 1024, 1)) @@ (PosEp21B :> MkEp21(31, 80, 2048, 4)) @@
    (PosEp21Bad :> Spoil(MkEp21(31, 64, 1024, 1), Ep21ISumOff)) @@
    (PosEp30A :> MkEp30(24, 64, 1024, 0)) @@ (PosEp30B :> MkEp30(24, 96, 2048, 1)) @@
    (PosEp30Bad :> Spoil(MkEp30(24, 64, 1024, 0), Ep30SumOff))

\* the positions the dispatcher is offered (the config tables are only pointed at)
Candidates ==
    {PosPirA, PosPirB, PosPirBad, PosPirSml, PosMpf1, PosMpf2, PosMpf0, PosMpfBig,
     PosMpfNul, PosMpfBad, PosRsdp1, PosRsdp2, PosRsdpBad, PosEp21A, PosEp21B,
     PosEp21Bad, PosEp30A, PosEp30B, PosEp30Bad}

(***************************************************************************)
(* The copy routines.  Each takes the registered tables and the f-segment  *)
(* as a record st = [PirAddr, RsdpAddr, SMBios21Addr, SMBios30Addr, fseg]  *)
(* and gives the record the call leaves.                                   *)
(***************************************************************************)
\* static void *copy_fseg_table(const char *name, void *pos, u32 size)
copy_fseg_table(st, name, pos, size) ==
    LET newpos == malloc_fseg(st, size)
    IN  IF newpos = 0
        THEN [fseg |-> st.fseg, newpos |-> 0]
        ELSE [fseg |-> Append(st.fseg, [addr |-> newpos, name |-> name,
                                        bytes |-> RdBytes(st.mem[pos], 0, size)]),
              newpos |-> newpos]

\* copy_pir without its "if (PirAddr) return;"
copy_pir_unguarded(st, pos) ==
    LET p    == st.mem[pos]
        size == RdU16(p, PirSizeOff)
        r    == copy_fseg_table(st, "PIR", pos, size)
    IN  IF RdBytes(p, 0, 4) # PIR_SIGNATURE THEN st
        ELSE IF size < SizeofPir THEN st
        ELSE IF checksum(p, size) # 0 THEN st
        ELSE [st EXCEPT !.PirAddr = r.newpos, !.fseg = r.fseg]

\* void copy_pir(void *pos)
copy_pir(st, pos) ==
    LET p    == st.mem[pos]
        size == RdU16(p, PirSizeOff)
        r    == copy_fseg_table(st, "PIR", pos, size)
    IN  IF RdBytes(p, 0, 4) # PIR_SIGNATURE THEN st
        ELSE IF st.PirAddr # 0 THEN st
        ELSE IF size < SizeofPir THEN st
        ELSE IF checksum(p, size) # 0 THEN st
        ELSE [st EXCEPT !.PirAddr = r.newpos, !.fseg = r.fseg]

\* void copy_mptable(void *pos); junk is what the fresh block holds
copy_mptable(st, pos, junk) ==
    LET p         == st.mem[pos]
        physaddr  == RdU32(p, MpfPhysOff)
        length    == RdU8(p, MpfLenOff) * 16
        mpclength == RdU16(st.mem[physaddr], MpcLenOff)
        newpos    == malloc_fseg(st, length + mpclength)
        fresh     == Fill(length + mpclength, junk)
        copied    == WrBytes(fresh, 0, RdBytes(p, 0, length))
        pointed   == WrBytes(copied, MpfPhysOff, LE32(newpos + length))
        summed    == WrBytes(pointed, MpfSumOff,
                         <<(RdU8(pointed, MpfSumOff) + 256
                              - checksum(pointed, SizeofMpf)) % 256>>)
        final     == WrBytes(summed, length, RdBytes(st.mem[physaddr], 0, mpclength))
    IN  IF RdBytes(p, 0, 4) # MPTABLE_SIGNATURE THEN st
        ELSE IF physaddr = 0 THEN st
        ELSE IF checksum(p, SizeofMpf) # 0 THEN st
        ELSE IF length + mpclength > BUILD_MAX_MPTABLE_FSEG THEN st
        ELSE IF newpos = 0 THEN st
        ELSE [st EXCEPT !.fseg = Append(@, [addr |-> newpos, name |-> "MPTABLE",
                                            bytes |-> final])]

\* (unsigned)-1, the size copy_acpi_rsdp passes: no u32 exceeds it
UINT_MAX == -1
GtU32(a, b) == IF b = UINT_MAX THEN FALSE ELSE a > b

\* static int get_acpi_rsdp_length(void *pos, unsigned size), on the bytes p
\* at pos: ret is the result, reads the number of bytes of p it looked at
get_acpi_rsdp_length(p, size) ==
    LET length == RdU32(p, RsdpLenOff)
    IN  IF RdBytes(p, 0, 8) # RSDP_SIGNATURE THEN [ret |-> -1, reads |-> 8]
        ELSE IF GtU32(20, size) THEN [ret |-> -1, reads |-> 8]
        ELSE IF checksum(p, 20) # 0 THEN [ret |-> -1, reads |-> 20]
        ELSE IF RdU8(p, RsdpRevOff) > 1
             THEN IF GtU32(length, size) THEN [ret |-> -1, reads |-> 24]
                  ELSE IF checksum(p, length) # 0
                       THEN [ret |-> -1, reads |-> IF length > 24 THEN length ELSE 24]
                       ELSE [ret |-> length, reads |-> IF length > 24 THEN length ELSE 24]
             ELSE [ret |-> 20, reads |-> 20]

\* void copy_acpi_rsdp(void *pos)
copy_acpi_rsdp(st, pos) ==
    LET length == get_acpi_rsdp_length(st.mem[pos], UINT_MAX).ret
        r      == copy_fseg_table(st, "ACPI RSDP", pos, length)
    IN  IF st.RsdpAddr # 0 THEN st
        ELSE IF length < 0 THEN st
        ELSE [st EXCEPT !.RsdpAddr = r.newpos, !.fseg = r.fseg]

\* void copy_smbios_21(void *pos), on the bytes p at pos
copy_smbios_21(st, pos) ==
    LET p      == st.mem[pos]
        length == RdU8(p, Ep21LenOff)
        r      == copy_fseg_table(st, "SMBIOS", pos, length)
    IN  IF st.SMBios21Addr # 0 THEN st
        ELSE IF RdBytes(p, 0, 4) # SMBIOS_21_SIGNATURE THEN st
        ELSE IF checksum(p, 16) # 0 THEN st
        ELSE IF RdBytes(p, Ep21DmiOff, 5) # DMI_ANCHOR THEN st
        ELSE IF checksum(RdBytes(p, 16, length - 16), length - 16) # 0 THEN st
        ELSE [st EXCEPT !.SMBios21Addr = r.newpos, !.fseg = r.fseg]

\* static int valid_smbios_30_signature(struct smbios_30_entry_point *p)
valid_smbios_30_signature(p) == RdBytes(p, 0, 5) = SMBIOS_30_ANCHOR

\* void copy_smbios_30(void *pos)
copy_smbios_30(st, pos) ==
    LET p      == st.mem[pos]
        length == RdU8(p, Ep30LenOff)
        r      == copy_fseg_table(st, "SMBIOS 3.0", pos, length)
    IN  IF st.SMBios30Addr # 0 THEN st
        ELSE IF ~valid_smbios_30_signature(p) THEN st
        ELSE IF checksum(p, length) # 0 THEN st
        ELSE [st EXCEPT !.SMBios30Addr = r.newpos, !.fseg = r.fseg]

\* void copy_table(void *pos)
copy_table(st, pos, junk) ==
    copy_smbios_30(
        copy_smbios_21(
            copy_acpi_rsdp(
                copy_mptable(
                    copy_pir(st, pos), pos, junk), pos), pos), pos)

(***************************************************************************)
(* SpecCopy: any sequence of calls of the copy routines and of copy_table, *)
(* each on any candidate.                                                  *)
(***************************************************************************)
St == [PirAddr |-> PirAddr, RsdpAddr |-> RsdpAddr, SMBios21Addr |-> SMBios21Addr,
       SMBios30Addr |-> SMBios30Addr, fseg |-> fseg, zone |-> FsegSize, mem |-> RAM]

\* what malloc_fseg's fresh memory may hold
JunkBytes == {0, 255}

NoCall == [op |-> "none", pos |-> 0, pre |-> <<0, 0, 0, 0>>, n |-> 0]

\* nothing is registered yet
CopyIdle ==
    /\ PirAddr = 0 /\ RsdpAddr = 0 /\ SMBios21Addr = 0 /\ SMBios30Addr = 0
    /\ fseg = <<>>
    /\ call = NoCall

\* no table is being walked
IterIdle ==
    /\ it_tbl = [bytes |-> <<>>, around |-> 0]
    /\ it_start = 0
    /\ it_structs = [wf |-> FALSE, list |-> <<>>]
    /\ it_seen = <<>>
    /\ it_last = [prev |-> 0, ret |-> 0, reads |-> {}, calls |-> 0]

\* no zone is being searched
ScanIdle ==
    /\ sc_img = <<>>
    /\ sc_start = 0
    /\ sc_end = 0
    /\ sc_last = [op |-> "none", pos |-> 0, size |-> 0, ret |-> 0, reads |-> 0]

\* no romfile is there, nothing was built
NoFile  == [present |-> FALSE, data |-> <<>>]
NoTable == [present |-> FALSE, first |-> <<>>, run |-> 0, last |-> <<>>]
NoBuild == [op |-> "none", ret |-> 0, path |-> "none", built |-> 0, found0 |-> FALSE,
            need_t0 |-> 0, declared |-> 0, length |-> 0, address |-> 0, ep |-> <<>>]
NoTables == [op |-> "none", ret |-> 0, length |-> 0]
BuildIdle ==
    /\ f_anchor = NoFile
    /\ f_tables = NoTable
    /\ VERSION = <<>>
    /\ high = <<>>
    /\ bd_last = NoBuild
    /\ legacy = FALSE
    /\ gt_last = NoTables

\* no ACPI table is in memory, the statics are zero
NoWrite == [kind |-> "none", addr |-> <<0, 0>>, val |-> 0]
NoReg   == [ok |-> FALSE, reg |-> <<>>, val |-> 0, rejected |-> FALSE]
AcpiIdle ==
    /\ ac_mem = <<>>
    /\ ac_last = [op |-> "none", sig |-> <<>>, ret |-> 0]
    /\ acpi_reset_reg = Fill(12, 0)
    /\ acpi_reset_val = 0
    /\ acpi_pm1a_cnt = 0
    /\ ac_pmtimer = 0
    /\ ac_write = NoWrite
    /\ ac_accepted = NoReg

InitCopy ==
    /\ CopyIdle
    /\ IterIdle
    /\ ScanIdle
    /\ BuildIdle
    /\ AcpiIdle

\* the call op(pos) took st to new
Return(new, op, pos) ==
    /\ PirAddr' = new.PirAddr
    /\ RsdpAddr' = new.RsdpAddr
    /\ SMBios21Addr' = new.SMBios21Addr
    /\ SMBios30Addr' = new.SMBios30Addr
    /\ fseg' = new.fseg
    /\ call' = [op |-> op, pos |-> pos, n |-> Len(fseg),
                pre |-> <<PirAddr, RsdpAddr, SMBios21Addr, SMBios30Addr>>]
    /\ UNCHANGED <<iterVars, scanVars, acpiVars, buildVars>>

CopyPir == \E pos \in Candidates : Return(copy_pir(St, pos), "copy_pir", pos)

CopyMptable ==
    \E pos \in Candidates, junk \in JunkBytes :
        Return(copy_mptable(St, pos, junk), "copy_mptable", pos)

CopyAcpiRsdp == \E pos \in Candidates : Return(copy_acpi_rsdp(St, pos), "copy_acpi_rsdp", pos)

CopySmbios21 == \E pos \in Candidates : Return(copy_smbios_21(St, pos), "copy_smbios_21", pos)

CopySmbios30 == \E pos \in Candidates : Return(copy_smbios_30(St, pos), "copy_smbios_30", pos)

CopyTable ==
    \E pos \in Candidates, junk \in JunkBytes :
        Return(copy_table(St, pos, junk), "copy_table", pos)

NextCopy ==
    \/ CopyPir
    \/ CopyMptable
    \/ CopyAcpiRsdp
    \/ CopySmbios21
    \/ CopySmbios30
    \/ CopyTable

SpecCopy == InitCopy /\ [][NextCopy]_vars

(***************************************************************************)
(* The copy routines' claims                                               *)
(***************************************************************************)
\* the candidates each routine accepts, by construction of RAM
ValidPirs  == {PosPirA, PosPirB}
ValidMpfs  == {PosMpf1, PosMpf2, PosMpf0}
ValidRsdps == {PosRsdp1, PosRsdp2}
ValidEp21s == {PosEp21A, PosEp21B}
ValidEp30s == {PosEp30A, PosEp30B}

registered == <<PirAddr, RsdpAddr, SMBios21Addr, SMBios30Addr, fseg>>

\* the f-segment holds a relocated MPTable
HasMptable == \E i \in 1..Len(fseg) : fseg[i].name = "MPTABLE"

\* the step is a call of routine op, or of copy_table, on a candidate of
\* valid, made when the table of that kind is already there
SecondCall(op, valid, there) ==
    /\ call'.op \in {op, "copy_table"}
    /\ call'.pos \in valid
    /\ there

NewBlock == fseg[Len(fseg)]

\* C5: whenever copy_mptable accepts a floating pointer and relocates it, the
\* relocated pointer's physaddr is new_base + pointer_table_length * 16, the
\* config table's M bytes lie at that address, and the relocated 16-byte
\* floating pointer sums to 0 modulo 256.
C5_MptableRelocated ==
    (call.op = "copy_mptable" /\ Len(fseg) > call.n) =>
        LET p      == RAM[call.pos]
            length == RdU8(p, MpfLenOff) * 16
            cfg    == RAM[RdU32(p, MpfPhysOff)]
            M      == RdU16(cfg, MpcLenOff)
        IN  /\ RdU32(NewBlock.bytes, MpfPhysOff) = NewBlock.addr + length
            /\ RdBytes(NewBlock.bytes, length, M) = RdBytes(cfg, 0, M)
            /\ checksum(NewBlock.bytes, SizeofMpf) = 0

\* C5 holds of the floating pointers whose length field is not 0
C5_MptableRelocatedNonzero ==
    (call.op = "copy_mptable" /\ Len(fseg) > call.n /\ call.pos # PosMpf0)
        => C5_MptableRelocated

(***************************************************************************)
(* smbios_next.  A table is [bytes, around]: the length bytes at start,    *)
(* and the value of the bytes of memory that lie before and after them.    *)
(* Every operator carries the set of addresses read so far.                *)
(***************************************************************************)
SizeofHdr  == 4       \* sizeof(struct smbios_structure_header)
HdrLenOff  == 1       \* smbios_structure_header.length

\* the byte at address a
Mem(tbl, start, a) ==
    IF a >= start /\ a < start + Len(tbl.bytes) THEN tbl.bytes[a - start + 1] ELSE tbl.around

\* the least number of the non-empty set S of numbers
Least(S) == CHOOSE x \in S : \A y \in S : x <= y

\* while (prev < end && (*(u8*)(prev-1) != '\0' || *(u8*)(prev-2) != '\0')) prev++;
\* The loop leaves prev at the first address from prev on that is end or has
\* two zero bytes before it.  At each address p before end it tried, it read
\* the byte at p-1 and, when that one is zero, the byte at p-2, which for
\* every p but the first is the byte at p-1 of the address tried before.
ScanTerminator(tbl, start, end, prev, reads) ==
    IF prev >= end THEN [prev |-> prev, reads |-> reads]
    ELSE TheOne({
            [prev  |-> last,
             reads |-> reads \cup ((prev - 1)..((IF last < end THEN last ELSE end - 1) - 1))
                         \cup (IF Mem(tbl, start, prev - 1) = 0 THEN {prev - 2} ELSE {})] :
            last \in { Least({p \in prev..end :
                                 \/ p >= end
                                 \/ /\ Mem(tbl, start, p - 1) = 0
                                    /\ Mem(tbl, start, p - 2) = 0}) } })

\* the step past prev that adds hdr->length + 1, not + 2
SkipStructureShort(tbl, start, end, prev) ==
    ScanTerminator(tbl, start, end,
                   prev + Mem(tbl, start, prev + HdrLenOff) + 1, {prev + HdrLenOff})

\* prev += hdr->length + 2; and the scan for the terminator
SkipStructure(tbl, start, end, prev) ==
    ScanTerminator(tbl, start, end,
                   prev + Mem(tbl, start, prev + HdrLenOff) + 2, {prev + HdrLenOff})

\* the last test without its "prev + sizeof(*hdr) >= end"
CheckStructureNoHeader(tbl, start, end, at) ==
    IF at.prev >= end THEN [ret |-> 0, reads |-> at.reads]
    ELSE IF at.prev + Mem(tbl, start, at.prev + HdrLenOff) >= end
         THEN [ret |-> 0, reads |-> at.reads \cup {at.prev + HdrLenOff}]
    ELSE [ret |-> at.prev, reads |-> at.reads \cup {at.prev + HdrLenOff}]

\* if (prev >= end || prev + sizeof(*hdr) >= end || prev + hdr->length >= end)
\*     return NULL;
\* return prev;
CheckStructure(tbl, start, end, at) ==
    IF at.prev >= end THEN [ret |-> 0, reads |-> at.reads]
    ELSE IF at.prev + SizeofHdr >= end THEN [ret |-> 0, reads |-> at.reads]
    ELSE IF at.prev + Mem(tbl, start, at.prev + HdrLenOff) >= end
         THEN [ret |-> 0, reads |-> at.reads \cup {at.prev + HdrLenOff}]
    ELSE [ret |-> at.prev, reads |-> at.reads \cup {at.prev + HdrLenOff}]

\* void *smbios_next(void *start, u32 length, void *prev)
smbios_next(tbl, start, length, prev) ==
    LET end == start + length
    IN  IF start = 0 THEN [ret |-> 0, reads |-> {}]
        ELSE IF prev = 0
             THEN CheckStructure(tbl, start, end, [prev |-> start, reads |-> {}])
        ELSE IF prev + SizeofHdr > end THEN [ret |-> 0, reads |-> {}]
        ELSE TheOne({ CheckStructure(tbl, start, end, at) :
                      at \in {SkipStructure(tbl, start, end, prev)} })

(***************************************************************************)
(* SpecIter: one walk over a table, smbios_next called with prev = NULL    *)
(* and then with each result fed back as prev, until it returns NULL.      *)
(* The table is either built from well-formed structures or any sequence   *)
(* of bytes.                                                               *)
(***************************************************************************)
MaxStructs == 3       \* structures in a well-formed table
MaxBlob    == 8       \* bytes in an arbitrary table

IterBase  == Pos(32)
IterBytes == {0, 1, 5}

\* the string-sets of the well-formed structures: none, "a", "ab", "a" "b"
StringSets == {<<>>, <<<<97>>>>, <<<<97, 98>>>>, <<<<97>>, <<98>>>>}

\* a well-formed structure: the bytes of its formatted area after the header,
\* and its strings
StructKinds == [extra : {<<>>, <<0>>}, strs : StringSets]

RECURSIVE StringBytes(_)
StringBytes(strs) ==
    IF strs = <<>> THEN <<>> ELSE strs[1] \o <<0>> \o StringBytes(Tail(strs))

\* header (type 1, length, handle 0), formatted area, string-set, terminator
StructBytes(k) ==
    <<1, SizeofHdr + Len(k.extra), 0, 0>> \o k.extra
        \o (IF k.strs = <<>> THEN <<0, 0>> ELSE StringBytes(k.strs) \o <<0>>)

RECURSIVE TableBytes(_)
TableBytes(structs) ==
    IF structs = <<>> THEN <<>> ELSE StructBytes(structs[1]) \o TableBytes(Tail(structs))

SeqsUpTo(S, n) == UNION {[1..k -> S] : k \in 0..n}

InitIter ==
    /\ CopyIdle
    /\ BuildIdle
    /\ ScanIdle
    /\ AcpiIdle
    /\ \E around \in {0, 1} :
        \/ \E structs \in SeqsUpTo(StructKinds, MaxStructs) :
              /\ it_structs = [wf |-> TRUE, list |-> structs]
              /\ it_tbl = [bytes |-> TableBytes(structs), around |-> around]
              /\ it_start = IterBase
        \/ \E bytes \in SeqsUpTo(IterBytes, MaxBlob) :
              /\ it_structs = [wf |-> FALSE, list |-> <<>>]
              /\ it_tbl = [bytes |-> bytes, around |-> around]
              /\ it_start \in (IF bytes = <<>> THEN {0, IterBase} ELSE {IterBase})
    /\ it_seen = <<>>
    /\ it_last = [prev |-> 0, ret |-> 0, reads |-> {}, calls |-> 0]

\* smbios_next(it_start, length, prev) returned r
Returned(prev, r) ==
    /\ it_last' = [prev |-> prev, ret |-> r.ret, reads |-> r.reads,
                   calls |-> it_last.calls + 1]
    /\ it_seen' = IF r.ret = 0 THEN it_seen ELSE Append(it_seen, r.ret)
    /\ UNCHANGED <<it_tbl, it_start, it_structs, copyVars, scanVars, acpiVars, buildVars>>

IterFirst ==
    /\ it_last.calls = 0
    /\ Returned(0, smbios_next(it_tbl, it_start, Len(it_tbl.bytes), 0))

IterNext ==
    /\ it_last.calls > 0
    /\ it_last.ret # 0
    /\ Returned(it_last.ret, smbios_next(it_tbl, it_start, Len(it_tbl.bytes), it_last.ret))

NextIter ==
    \/ IterFirst
    \/ IterNext

SpecIter == InitIter /\ [][NextIter]_vars

\* the walk is over: the last call returned NULL
IterDone == it_last.calls > 0 /\ it_last.ret = 0

\* the addresses the structures were laid at
RECURSIVE StructStarts(_, _)
StructStarts(structs, at) ==
    IF structs = <<>> THEN <<>>
    ELSE <<at>> \o StructStarts(Tail(structs), at + Len(StructBytes(structs[1])))

\* C2: over a table made of N well-formed structures, with table_length the
\* table's size, smbios_next started with prev = NULL and fed its own results
\* yields the N structure addresses in order, and then NULL.
C2_YieldsEveryStructure ==
    it_structs.wf =>
        LET starts == StructStarts(it_structs.list, it_start)
        IN  /\ Len(it_seen) <= Len(starts)
            /\ it_seen = SubSeq(starts, 1, Len(it_seen))
            /\ IterDone => it_seen = starts

\* C2's case: a walk over three structures, one of them with two strings,
\* has ended.
C2_WalkedThree ==
    /\ it_structs.wf
    /\ Len(it_structs.list) = 3
    /\ it_structs.list[2].strs = <<<<97>>, <<98>>>>
    /\ IterDone
    /\ Len(it_seen) = 3

\* C3: over any table contents, every non-NULL result p of smbios_next lies
\* after prev, p + header size and p + its declared length lie before end,
\* no call reads outside start..end-1, and the walk returns NULL within
\* length + 1 calls.
C3_ResultsInBounds ==
    LET end == it_start + Len(it_tbl.bytes)
        p   == it_last.ret
    IN  /\ it_last.reads \subseteq it_start..(end - 1)
        /\ it_last.calls <= Len(it_tbl.bytes) + 1
        /\ p # 0 =>
            /\ it_last.prev < p
            /\ p + SizeofHdr < end
            /\ p + Mem(it_tbl, it_start, p + HdrLenOff) < end

\* C3's case: a table with no terminator after its last structure was
\* walked to the end, the scan stopping at end.
C3_WalkedUnterminated ==
    /\ ~it_structs.wf
    /\ IterDone
    /\ Len(it_seen) >= 1
    /\ it_last.prev # 0
    /\ it_tbl.bytes[Len(it_tbl.bytes) - 1] # 0
    /\ (it_start + Len(it_tbl.bytes) - 2) \in it_last.reads

(***************************************************************************)
(* find_acpi_rsdp.  sc_img holds the bytes of memory from ScanBase on; the *)
(* zone searched is sc_start..sc_end-1 and the image goes on after it.     *)
(***************************************************************************)
ScanBase == Pos(48)

ALIGN(x, a)      == ((x + a - 1) \div a) * a
ALIGN_DOWN(x, a) == (x \div a) * a

\* the bytes of img at address pos and after it
From(img, pos) == SubSeq(img, pos - ScanBase + 1, Len(img))

\* for (pos = ALIGN(start, 0x10); pos <= ALIGN_DOWN(end, 0x10); pos += 0x10)
\*     if (get_acpi_rsdp_length((void *)pos, end - pos) >= 0) return (void *)pos;
\* return NULL;
\* hi is the end of the highest read made so far
RECURSIVE ScanZone(_, _, _, _)
ScanZone(img, end, pos, hi) ==
    IF pos > ALIGN_DOWN(end, 16) THEN [ret |-> 0, reads |-> hi]
    ELSE LET r   == get_acpi_rsdp_length(From(img, pos), end - pos)
             top == IF pos + r.reads > hi THEN pos + r.reads ELSE hi
         IN  IF r.ret >= 0 THEN [ret |-> pos, reads |-> top]
             ELSE ScanZone(img, end, pos + 16, top)

\* void *find_acpi_rsdp(void)
find_acpi_rsdp(img, start, end) == ScanZone(img, end, ALIGN(start, 16), 0)

(***************************************************************************)
(* SpecScan: a memory image with at most one RSDP in it, a zone over it,   *)
(* and any calls of get_acpi_rsdp_length and find_acpi_rsdp.               *)
(***************************************************************************)
ImageSize == 96

\* the RSDPs placed: none, revision 0, revision 2, revision 2 of length 40
ScanRsdps ==
    {<<>>, MkRsdp(0, 0, 256, 0, 0), MkRsdp(2, 36, 256, 512, 0),
     MkRsdp(2, 40, 256, 512, 0)}

InitScan ==
    /\ CopyIdle
    /\ BuildIdle
    /\ IterIdle
    /\ AcpiIdle
    /\ \E rsdp \in ScanRsdps, at \in {0, 16, 32}, filler \in {0, 82} :
          sc_img = WrBytes(Fill(ImageSize, filler), at, rsdp)
    /\ sc_start \in {ScanBase, ScanBase + 4}
    /\ sc_end \in {ScanBase + e : e \in {16, 20, 24, 36, 40, 48, 52}}
    /\ sc_last = [op |-> "none", pos |-> 0, size |-> 0, ret |-> 0, reads |-> 0]

GetAcpiRsdpLength ==
    \E pos \in {ScanBase + o : o \in {0, 16, 32, 48}},
       size \in {0, 7, 8, 19, 20, 23, 24, 35, 36, 40} :
        LET r == get_acpi_rsdp_length(From(sc_img, pos), size)
        IN  /\ sc_last' = [op |-> "get_acpi_rsdp_length", pos |-> pos, size |-> size,
                           ret |-> r.ret, reads |-> r.reads]
            /\ UNCHANGED <<sc_img, sc_start, sc_end, copyVars, iterVars, acpiVars, buildVars>>

FindAcpiRsdp ==
    LET r == find_acpi_rsdp(sc_img, sc_start, sc_end)
    IN  /\ sc_last' = [op |-> "find_acpi_rsdp", pos |-> sc_start, size |-> sc_end - sc_start,
                       ret |-> r.ret, reads |-> r.reads]
        /\ UNCHANGED <<sc_img, sc_start, sc_end, copyVars, iterVars, acpiVars, buildVars>>

NextScan ==
    \/ GetAcpiRsdpLength
    \/ FindAcpiRsdp

SpecScan == InitScan /\ [][NextScan]_vars

\* C8: get_acpi_rsdp_length(pos, size) reads no byte at offset >= size from
\* pos, and find_acpi_rsdp reads no byte at or beyond the zone's end.
C8_ReadsWithinBound ==
    /\ sc_last.op = "get_acpi_rsdp_length" => sc_last.reads <= sc_last.size
    /\ sc_last.op = "find_acpi_rsdp" => sc_last.reads <= sc_end

\* what does hold: past the 8 signature bytes and the 4 bytes of the length
\* field, get_acpi_rsdp_length reads nothing beyond size
C8_ReadsAfterSignature ==
    sc_last.op = "get_acpi_rsdp_length" =>
        \/ sc_last.reads <= sc_last.size
        \/ sc_last.reads = 8
        \/ sc_last.reads = 24 /\ sc_last.size >= 20

(***************************************************************************)
(* The ACPI tables.  mem[a] is the sequence of bytes at address a and      *)
(* after it: a table, followed by what memory holds behind it.             *)
(***************************************************************************)
RSDT_SIGNATURE == <<82, 83, 68, 84>>     \* "RSDT"
XSDT_SIGNATURE == <<88, 83, 68, 84>>     \* "XSDT"
FACP_SIGNATURE == <<70, 65, 67, 80>>     \* "FACP"
APIC_SIGNATURE == <<65, 80, 73, 67>>     \* "APIC"

SizeofAcpiHdr == 36     \* sizeof(struct acpi_table_header), ACPI_TABLE_HEADER_DEF
AcpiLenOff    == 4      \* acpi_table_header.length
FadtPm1aOff   == 64     \* fadt_descriptor_rev1.pm1a_cnt_blk
FadtTmrOff    == 76     \* fadt_descriptor_rev1.pm_tmr_blk
FadtResetOff  == 116    \* the reset register, p + 116
FadtValueOff  == 128    \* the reset value, p + 128
GaWidthOff    == 1      \* acpi_20_generic_address.register_bit_width
GaOffsetOff   == 2      \* acpi_20_generic_address.register_bit_offset
GaAddrOff     == 4      \* acpi_20_generic_address.address

\* a 64-bit field as <<low 32 bits, high 32 bits>>
RdU64(m, off) == <<RdU32(m, off), RdU32(m, off + 4)>>

\* the entries i = 0, 1, ... with &table_offset_entry[i] < end, searched in
\* order for the first one below 4 GiB, not NULL, whose target has the
\* signature; width is the entry's size, 4 or 8
RECURSIVE SearchEntries(_, _, _, _, _)
SearchEntries(mem, tbl, width, signature, i) ==
    LET off   == SizeofAcpiHdr + width * i
        entry == IF width = 8 THEN RdU64(mem[tbl], off) ELSE <<RdU32(mem[tbl], off), 0>>
        t     == entry[1]
    IN  IF off >= RdU32(mem[tbl], AcpiLenOff) THEN 0
        ELSE IF entry[2] # 0 THEN SearchEntries(mem, tbl, width, signature, i + 1)
        ELSE IF t = 0 \/ RdBytes(mem[t], 0, 4) # signature
             THEN SearchEntries(mem, tbl, width, signature, i + 1)
        ELSE t

\* void *find_acpi_table(u32 signature)
find_acpi_table(mem, rsdpAddr, signature) ==
    IF rsdpAddr = 0 \/ RdBytes(mem[rsdpAddr], 0, 8) # RSDP_SIGNATURE THEN 0
    ELSE LET rsdt  == RdU32(mem[rsdpAddr], RsdpRsdtOff)
             xaddr == RdU64(mem[rsdpAddr], RsdpXsdtOff)
             xsdt  == IF xaddr[2] # 0 THEN 0 ELSE xaddr[1]
             viaX  == IF xsdt # 0 /\ RdBytes(mem[xsdt], 0, 4) = XSDT_SIGNATURE
                      THEN SearchEntries(mem, xsdt, 8, signature, 0) ELSE 0
             viaR  == IF rsdt # 0 /\ RdBytes(mem[rsdt], 0, 4) = RSDT_SIGNATURE
                      THEN SearchEntries(mem, rsdt, 4, signature, 0) ELSE 0
         IN  IF viaX # 0 THEN viaX ELSE viaR

\* acpi_set_reset_reg without its test of register_bit_offset
acpi_set_reset_reg_any_offset(cur, reg, val) ==
    IF RdU8(reg, 0) > 2 \/ RdU8(reg, GaWidthOff) # 8
    THEN cur
    ELSE [reg |-> reg, val |-> val]

\* static void acpi_set_reset_reg(struct acpi_20_generic_address *reg, u8 val)
\* cur is [reg, val], the statics acpi_reset_reg and acpi_reset_val; reg is
\* never NULL, find_acpi_features hands in p + 116
acpi_set_reset_reg(cur, reg, val) ==
    IF RdU8(reg, 0) > 2 \/ RdU8(reg, GaWidthOff) # 8 \/ RdU8(reg, GaOffsetOff) # 0
    THEN cur
    ELSE [reg |-> reg, val |-> val]

\* void find_acpi_features(void): the statics it leaves, and the port it
\* hands to pmtimer_setup.  acpi_dsdt_parse, called last, is not modelled.
find_acpi_features(mem, rsdpAddr, cur) ==
    LET fadt     == find_acpi_table(mem, rsdpAddr, FACP_SIGNATURE)
        p        == mem[fadt]
        pm_tmr   == RdU32(p, FadtTmrOff)
        pm1a_cnt == RdU32(p, FadtPm1aOff)
        reset    == IF RdU32(p, AcpiLenOff) >= 129
                    THEN acpi_set_reset_reg([reg |-> cur.reg, val |-> cur.val],
                                            RdBytes(p, FadtResetOff, 12),
                                            RdU8(p, FadtValueOff))
                    ELSE [reg |-> cur.reg, val |-> cur.val]
    IN  IF fadt = 0 THEN cur
        ELSE [reg |-> reset.reg, val |-> reset.val,
              pm1a_cnt |-> IF pm1a_cnt # 0 THEN pm1a_cnt ELSE cur.pm1a_cnt,
              pmtimer |-> IF pm_tmr # 0 THEN pm_tmr ELSE cur.pmtimer]

\* void acpi_reboot(void): the write it makes
acpi_reboot(reg, val) ==
    LET addr == RdU64(reg, GaAddrOff)
        asid == RdU8(reg, 0)
    IN  IF RdU8(reg, GaWidthOff) # 8 THEN NoWrite
        ELSE IF asid = 0 THEN [kind |-> "writeb", addr |-> <<addr[1], 0>>, val |-> val]
        ELSE IF asid = 1 THEN [kind |-> "outb", addr |-> <<addr[1] % 65536, 0>>, val |-> val]
        ELSE IF asid = 2 THEN [kind |-> "pci_config_writeb", addr |-> addr, val |-> val]
        ELSE NoWrite

(***************************************************************************)
(* The tables of SpecFind and SpecReset                                    *)
(***************************************************************************)
A_RSDP  == Pos(64)
A_RSDT  == Pos(65)
A_XSDT  == Pos(66)
A_FADT  == Pos(67)     \* an FADT
A_FADT2 == Pos(68)     \* a second table with signature FACP
A_APIC  == Pos(69)     \* a table with signature APIC

MkHdr(signature, length) == signature \o LE32(length) \o Fill(28, 0)

\* an RSDT of the declared length, with the two 32-bit words e that memory
\* holds from offset 36 on
MkRsdt(signature, length, e) == MkHdr(signature, length) \o LE32(e[1]) \o LE32(e[2])

\* an XSDT of the declared length, with the two 64-bit words x that memory
\* holds from offset 36 on, each <<low, high>>
MkXsdt(signature, length, x) ==
    MkHdr(signature, length) \o LE32(x[1][1]) \o LE32(x[1][2])
        \o LE32(x[2][1]) \o LE32(x[2][2])

\* a generic address: address-space id, bit width, bit offset, address
MkGa(asid, width, offset, addr) == <<asid, width, offset, 1>> \o LE32(addr) \o LE32(0)

MkFadt(length, reg, val, pm_tmr, pm1a) ==
    MkHdr(FACP_SIGNATURE, length) \o Fill(28, 0) \o LE32(pm1a) \o Fill(8, 0)
        \o LE32(pm_tmr) \o Fill(36, 0) \o reg \o <<val>> \o Fill(3, 0)

DefaultFadt == MkFadt(132, MkGa(1, 8, 0, 3321), 6, 45064, 45060)

(***************************************************************************)
(* SpecFind: an RSDP, an RSDT and an XSDT of any of the shapes below, and  *)
(* find_acpi_table called for a signature.                                 *)
(***************************************************************************)
FindMems(rsdts) ==
    {   (A_RSDP :> MkRsdp(2, 36, rsdt, xsdt[1], xsdt[2])) @@
        (A_RSDT :> MkRsdt(rsig, rlen, re)) @@
        (A_XSDT :> MkXsdt(xsig, xlen, xe)) @@
        (A_FADT :> DefaultFadt) @@ (A_FADT2 :> DefaultFadt) @@
        (A_APIC :> MkHdr(APIC_SIGNATURE, 36)) :
        rsdt \in rsdts,
        xsdt \in {<<0, 0>>, <<A_XSDT, 0>>, <<A_XSDT, 1>>},
        rsig \in {RSDT_SIGNATURE, BadSignature},
        rlen \in {36, 38, 44},
        re   \in {0, A_FADT, A_APIC} \X {A_FADT, A_FADT2, A_APIC},
        xsig \in {XSDT_SIGNATURE, BadSignature},
        xlen \in {40, 52},
        xe   \in {<<0, 0>>, <<A_FADT2, 0>>, <<A_APIC, 0>>, <<A_FADT2, 1>>}
                 \X {<<0, 0>>, <<A_FADT2, 0>>, <<A_APIC, 0>>, <<A_FADT2, 1>>} }

InitFind ==
    /\ IterIdle
    /\ ScanIdle
    /\ BuildIdle
    /\ PirAddr = 0 /\ SMBios21Addr = 0 /\ SMBios30Addr = 0
    /\ fseg = <<>>
    /\ call = NoCall
    /\ RsdpAddr \in {0, A_RSDP}
    /\ ac_mem \in FindMems({0, A_RSDT})
    /\ ac_last = [op |-> "none", sig |-> <<>>, ret |-> 0]
    /\ acpi_reset_reg = Fill(12, 0)
    /\ acpi_reset_val = 0
    /\ acpi_pm1a_cnt = 0
    /\ ac_pmtimer = 0
    /\ ac_write = NoWrite
    /\ ac_accepted = NoReg

FindAcpiTable ==
    \E signature \in {FACP_SIGNATURE, APIC_SIGNATURE} :
        /\ ac_last' = [op |-> "find_acpi_table", sig |-> signature,
                       ret |-> find_acpi_table(ac_mem, RsdpAddr, signature)]
        /\ UNCHANGED <<ac_mem, acpi_reset_reg, acpi_reset_val, acpi_pm1a_cnt,
                       ac_pmtimer, ac_write, ac_accepted, copyVars, iterVars, scanVars, buildVars>>

NextFind == FindAcpiTable

SpecFind == InitFind /\ [][NextFind]_vars

\* what C4 says find_acpi_table returns: the first of the table's
\* floor((length - 36) / width) entries that is not NULL, lies below 4 GiB
\* and points at a table with the signature
RECURSIVE ClaimedSearch(_, _, _, _, _)
ClaimedSearch(mem, tbl, width, signature, i) ==
    LET n     == (RdU32(mem[tbl], AcpiLenOff) - SizeofAcpiHdr) \div width
        off   == SizeofAcpiHdr + width * i
        entry == IF width = 8 THEN RdU64(mem[tbl], off) ELSE <<RdU32(mem[tbl], off), 0>>
    IN  IF i >= n THEN 0
        ELSE IF entry[2] = 0 /\ entry[1] # 0 /\ RdBytes(mem[entry[1]], 0, 4) = signature
             THEN entry[1]
        ELSE ClaimedSearch(mem, tbl, width, signature, i + 1)

ClaimedFind(mem, rsdpAddr, signature) ==
    IF rsdpAddr = 0 THEN 0
    ELSE LET rsdt  == RdU32(mem[rsdpAddr], RsdpRsdtOff)
             xaddr == RdU64(mem[rsdpAddr], RsdpXsdtOff)
         IN  IF xaddr[2] = 0 /\ xaddr[1] # 0
                  /\ RdBytes(mem[xaddr[1]], 0, 4) = XSDT_SIGNATURE
             THEN ClaimedSearch(mem, xaddr[1], 8, signature, 0)
             ELSE IF rsdt # 0 /\ RdBytes(mem[rsdt], 0, 4) = RSDT_SIGNATURE
             THEN ClaimedSearch(mem, rsdt, 4, signature, 0)
             ELSE 0

\* C4: find_acpi_table searches the XSDT when it is present and valid and
\* the RSDT otherwise, looks at the first floor((length - 36) / width)
\* entries only, returns the first match and NULL when there is none.
C4_FindAsClaimed ==
    ac_last.op = "find_acpi_table" =>
        ac_last.ret = ClaimedFind(ac_mem, RsdpAddr, ac_last.sig)

\* C4, the entry count alone: a table whose length leaves room for no whole
\* entry yields no result
C4_NoPartialEntry ==
    (/\ ac_last.op = "find_acpi_table"
     /\ RsdpAddr # 0
     /\ RdU64(ac_mem[A_RSDP], RsdpXsdtOff) = <<0, 0>>
     /\ RdU32(ac_mem[A_RSDT], AcpiLenOff) < SizeofAcpiHdr + 4)
        => ac_last.ret = 0

(***************************************************************************)
(* SpecReset: the firmware writes an FADT of any contents, and             *)
(* find_acpi_features and acpi_reboot are called in any order.             *)
(***************************************************************************)
\* the FADTs written: any length around 129, any address space, bit width,
\* bit offset and reset value, no power-management blocks (the FADT in
\* memory at first has them)
Fadts ==
    { MkFadt(length, MkGa(asid, width, offset, 3321), val, 0, 0) :
        length \in {128, 129}, asid \in {0, 1, 2, 3}, width \in {8, 16},
        offset \in {0, 4}, val \in {6, 14} }

InitReset ==
    /\ IterIdle
    /\ ScanIdle
    /\ BuildIdle
    /\ PirAddr = 0 /\ SMBios21Addr = 0 /\ SMBios30Addr = 0
    /\ fseg = <<>>
    /\ call = NoCall
    /\ RsdpAddr \in {0, A_RSDP}
    /\ \E second \in {A_FADT, A_APIC} :
          ac_mem = (A_RSDP :> MkRsdp(2, 36, A_RSDT, 0, 0)) @@
                   (A_RSDT :> MkRsdt(RSDT_SIGNATURE, 44, <<A_APIC, second>>)) @@
                   (A_FADT :> DefaultFadt) @@ (A_APIC :> MkHdr(APIC_SIGNATURE, 36))
    /\ ac_last = [op |-> "none", sig |-> <<>>, ret |-> 0]
    /\ acpi_reset_reg = Fill(12, 0)
    /\ acpi_reset_val = 0
    /\ acpi_pm1a_cnt = 0
    /\ ac_pmtimer = 0
    /\ ac_write = NoWrite
    /\ ac_accepted = NoReg

\* the firmware's table builder stores an FADT
WriteFadt ==
    \E fadt \in Fadts :
        /\ ac_mem' = [ac_mem EXCEPT ![A_FADT] = fadt]
        /\ UNCHANGED <<ac_last, acpi_reset_reg, acpi_reset_val, acpi_pm1a_cnt, ac_pmtimer,
                       ac_write, ac_accepted, copyVars, iterVars, scanVars, buildVars>>

\* the FADT p is long enough and its reset descriptor is one to accept
Acceptable(p) ==
    /\ RdU32(p, AcpiLenOff) >= 129
    /\ RdU8(p, FadtResetOff) \in {0, 1, 2}
    /\ RdU8(p, FadtResetOff + 1) = 8
    /\ RdU8(p, FadtResetOff + 2) = 0

FindAcpiFeatures ==
    LET fadt == find_acpi_table(ac_mem, RsdpAddr, FACP_SIGNATURE)
        new  == find_acpi_features(ac_mem, RsdpAddr,
                    [reg |-> acpi_reset_reg, val |-> acpi_reset_val,
                     pm1a_cnt |-> acpi_pm1a_cnt, pmtimer |-> ac_pmtimer])
    IN  /\ acpi_reset_reg' = new.reg
        /\ acpi_reset_val' = new.val
        /\ acpi_pm1a_cnt' = new.pm1a_cnt
        /\ ac_pmtimer' = new.pmtimer
        /\ ac_last' = [op |-> "find_acpi_features", sig |-> FACP_SIGNATURE, ret |-> fadt]
        /\ ac_accepted' =
              IF fadt = 0 THEN ac_accepted
              ELSE IF Acceptable(ac_mem[fadt])
              THEN [ok |-> TRUE, reg |-> RdBytes(ac_mem[fadt], FadtResetOff, 12),
                    val |-> RdU8(ac_mem[fadt], FadtValueOff), rejected |-> FALSE]
              ELSE [ac_accepted EXCEPT !.rejected = TRUE]
        /\ UNCHANGED <<ac_mem, ac_write, copyVars, iterVars, scanVars, buildVars>>

AcpiReboot ==
    /\ ac_write' = acpi_reboot(acpi_reset_reg, acpi_reset_val)
    /\ ac_last' = [op |-> "acpi_reboot", sig |-> <<>>, ret |-> 0]
    /\ UNCHANGED <<ac_mem, acpi_reset_reg, acpi_reset_val, acpi_pm1a_cnt, ac_pmtimer,
                   ac_accepted, copyVars, iterVars, scanVars, buildVars>>

NextReset ==
    \/ WriteFadt
    \/ FindAcpiFeatures
    \/ AcpiReboot

SpecReset == InitReset /\ [][NextReset]_vars

\* the primitive acpi_reboot uses for an address-space id
WriteKind(asid) ==
    IF asid = 0 THEN "writeb" ELSE IF asid = 1 THEN "outb" ELSE "pci_config_writeb"

\* C7: acpi_reboot writes only the value, and through the primitive, of a
\* descriptor that find_acpi_features took from an FADT of length >= 129
\* with address-space id 0, 1 or 2, bit width 8 and bit offset 0; the stored
\* reset register and value are those of the last such descriptor, whatever
\* was rejected since, and all zero while none was accepted, when acpi_reboot
\* writes nothing.
C7_ResetOnlyIfAccepted ==
    /\ ac_write.kind # "none" => ac_accepted.ok
    /\ ac_last.op = "acpi_reboot" =>
          IF ac_accepted.ok
          THEN /\ ac_write.kind = WriteKind(RdU8(ac_accepted.reg, 0))
               /\ ac_write.val = ac_accepted.val
          ELSE ac_write.kind = "none"
    /\ ac_accepted.ok =>
          /\ acpi_reset_reg = ac_accepted.reg
          /\ acpi_reset_val = ac_accepted.val
    /\ ~ac_accepted.ok =>
          /\ acpi_reset_reg = Fill(12, 0)
          /\ acpi_reset_val = 0

\* C7's case: a descriptor was accepted, a later one was rejected, and
\* acpi_reboot then wrote to PCI config space; and
C7_RebootAfterRejection ==
    /\ ac_last.op = "acpi_reboot"
    /\ ac_accepted.ok
    /\ ac_accepted.rejected
    /\ ac_write.kind = "pci_config_writeb"

(***************************************************************************)
(* The SMBIOS table builder.  The romfile "etc/smbios/smbios-tables" holds *)
(* the bytes first, then run bytes 'A', then the bytes last, so that a     *)
(* table of 64 KiB is a small value; the builder works on its bytes.       *)
(***************************************************************************)
BIOS_NAME == <<68, 101, 108, 108, 66, 73, 79, 83>>              \* "DellBIOS"
BIOS_DATE == <<48, 53, 47, 48, 53, 47, 50, 48, 50, 50>>         \* "05/05/2022"

SizeofType0 == 24
BUILD_MAX_SMBIOS_FSEG == 600

HighBase    == 96 * 1048576      \* where malloc_high's blocks start
TmpHighBase == 112 * 1048576     \* where malloc_tmphigh's block is
PosStack    == Pos(80)           \* the local union ep of smbios_romfile_setup

\* void *malloc_high(u32 size): the new block's address, or 0 when the
\* zone has no room (ok = FALSE)
malloc_high(blocks, size, ok) == IF ok THEN HighBase + FsegUsed(blocks) ELSE 0

\* void *malloc_tmphigh(u32 size)
malloc_tmphigh(size, ok) == IF ok THEN TmpHighBase ELSE 0

\* f->size and what f->copy(f, dst, f->size) stores
FileSize(f)  == Len(f.first) + f.run + Len(f.last)
FileBytes(f) == f.first \o Fill(f.run, 65) \o f.last

\* a - b in unsigned 32-bit arithmetic, as <<low 16 bits, high 16 bits>>
SubU32(a, b) == LET d == a - b IN <<d % 65536, (d \div 65536) % 65536>>

\* a > b in unsigned 32-bit arithmetic, for a below 2^31 and b as SubU32 gives it
GtU32Halves(a, b) ==
    \/ a \div 65536 > b[2]
    \/ a \div 65536 = b[2] /\ a % 65536 > b[1]

\* set_str_field_or_skip(type, field, value), on s = [end, str_index, field]:
\* end is what was stored from the structure's end on, field the value of
\* p->field
set_str_field_or_skip(s, value) ==
    LET size == Len(value) + 1
    IN  IF size > 1
        THEN [end |-> s.end \o value \o <<0>>, str_index |-> s.str_index + 1,
              field |-> s.str_index + 1]
        ELSE [end |-> s.end, str_index |-> s.str_index, field |-> 0]

\* smbios_new_type_0 without its "*end = 0; end++;" after the last string
smbios_new_type_0_unterminated(vendor, version, date) ==
    LET s0 == [end |-> <<>>, str_index |-> 0, field |-> 0]
        s1 == set_str_field_or_skip(s0, vendor)
        s2 == set_str_field_or_skip(s1, version)
        s3 == set_str_field_or_skip(s2, date)
    IN  <<0, SizeofType0, 0, 0, s1.field, s2.field>> \o LE16(59392) \o <<s3.field, 0>>
            \o <<8, 0, 0, 0, 0, 0, 0, 0>> \o <<0, 4>> \o <<0, 0, 255, 255>>
            \o s3.end \o (IF s3.str_index = 0 THEN <<0>> ELSE <<>>)

\* static void *smbios_new_type_0(void *start, vendor, version, date): the
\* bytes stored from start up to the pointer returned
smbios_new_type_0(vendor, version, date) ==
    LET s0 == [end |-> <<>>, str_index |-> 0, field |-> 0]
        s1 == set_str_field_or_skip(s0, vendor)
        s2 == set_str_field_or_skip(s1, version)
        s3 == set_str_field_or_skip(s2, date)
    IN  <<0, SizeofType0, 0, 0, s1.field, s2.field>> \o LE16(59392) \o <<s3.field, 0>>
            \o <<8, 0, 0, 0, 0, 0, 0, 0>> \o <<0, 4>> \o <<0, 0, 255, 255>>
            \o s3.end \o <<0>> \o (IF s3.str_index = 0 THEN <<0>> ELSE <<>>)

\* for (t0 = smbios_next(qtables, qtables_len, NULL); t0;
\*      t0 = smbios_next(qtables, qtables_len, t0))
\*     if (t0->header.type == 0) { need_t0 = 0; break; }
\* TRUE when the loop finds a structure of type 0
RECURSIVE FindType0(_, _, _, _)
FindType0(qtables, start, qtables_len, t0) ==
    IF t0 = 0 THEN FALSE
    ELSE IF Mem(qtables, start, t0) = 0 THEN TRUE
    ELSE TheOne({ FindType0(qtables, start, qtables_len, next) :
                  next \in {smbios_next(qtables, start, qtables_len, t0).ret} })

\* static int smbios_build_tables(f_tables, address, length,
\*                                max_structure_size, number_of_structures)
\* length is *length on entry; opt holds the two optional counters, present
\* or not; tmpOk and highOk say whether malloc_tmphigh and malloc_high have
\* room.  The lengths of the model stay below 2^31.
smbios_build_tables(st, f, length, opt, tmpOk, highOk) ==
    LET size   == FileSize(f)
        start  == malloc_tmphigh(size, tmpOk)
        t0_len == (SizeofType0 + Len(BIOS_NAME) + Len(VERSION) + Len(BIOS_DATE) + 4) % 65536
        fail(l, m, n) == [ret |-> 0, st |-> st, address |-> 0, length |-> l, max |-> m,
                          num |-> n, need_t0 |-> 0, found0 |-> FALSE]
        \* from "if (need_t0)" on: found says whether the loop found a type 0
        populate(qtables, found) ==
            LET need_t0 == ~found /\ ~GtU32Halves(t0_len, SubU32(65535, length))
                length1 == IF need_t0 THEN length + t0_len ELSE length
                max1    == IF need_t0 /\ opt.present /\ t0_len > opt.max
                           THEN t0_len ELSE opt.max
                num1    == IF need_t0 /\ opt.present THEN (opt.num + 1) % 65536 ELSE opt.num
                inhigh  == length1 > BUILD_MAX_SMBIOS_FSEG
                tables  == IF inhigh THEN malloc_high(st.high, length1, highOk)
                           ELSE malloc_fseg(st, length1)
                blob    == (IF need_t0 THEN smbios_new_type_0(BIOS_NAME, VERSION, BIOS_DATE)
                            ELSE <<>>) \o qtables.bytes
                block   == [addr |-> tables, name |-> "smbios-tables", bytes |-> blob]
            IN  IF tables = 0 THEN fail(length1, max1, num1)
                ELSE [ret |-> 1,
                      st |-> IF inhigh THEN [st EXCEPT !.high = Append(@, block)]
                             ELSE [st EXCEPT !.fseg = Append(@, block)],
                      address |-> tables, length |-> length1, max |-> max1, num |-> num1,
                      need_t0 |-> IF need_t0 THEN 1 ELSE 0, found0 |-> found]
        \* from "f_tables->copy(...)" on: qtables holds the file's bytes
        walk(qtables) ==
            TheOne({ populate(qtables, found) :
                     found \in {FindType0(qtables, start, size,
                                          smbios_next(qtables, start, size, 0).ret)} })
    IN  IF size # length THEN fail(length, opt.max, opt.num)
        ELSE IF start = 0 THEN fail(length, opt.max, opt.num)
        ELSE TheOne({ walk(qtables) : qtables \in {[bytes |-> FileBytes(f), around |-> 0]} })

\* static int smbios_21_setup_entry_point(f_tables, ep)
smbios_21_setup_entry_point(st, f, ep, tmpOk, highOk) ==
    LET length == RdU16(ep, Ep21TLenOff)
        \* from the return of smbios_build_tables on: b is what it returned
        finalize(b) ==
            LET ep1  == WrBytes(WrBytes(ep, Ep21MaxOff, LE16(b.max)), Ep21NumOff, LE16(b.num))
                ep2  == WrBytes(WrBytes(ep1, Ep21TAdrOff, LE32(b.address)),
                                Ep21TLenOff, LE16(b.length))
                ep3  == WrBytes(ep2, Ep21SumOff,
                                <<(RdU8(ep2, Ep21SumOff) - checksum(ep2, 16)) % 256>>)
                rest == RdU8(ep3, Ep21LenOff) - 16
                ep4  == WrBytes(ep3, Ep21ISumOff,
                                <<(RdU8(ep3, Ep21ISumOff)
                                     - checksum(RdBytes(ep3, 16, rest), rest)) % 256>>)
            IN  IF b.ret = 0
                THEN [ret |-> 0, path |-> "2.1", declared |-> length, ep |-> ep1,
                      st |-> st, b |-> b]
                ELSE IF b.length > 65535
                THEN [ret |-> 0, path |-> "2.1", declared |-> length, ep |-> ep1,
                      st |-> b.st, b |-> b]
                ELSE TheOne({ [ret |-> 1, path |-> "2.1", declared |-> length, ep |-> final,
                               b |-> b,
                               st |-> copy_smbios_21([b.st EXCEPT !.mem = PosStack :> final],
                                                     PosStack)] :
                              final \in {ep4} })
    IN  TheOne({ finalize(b) :
                 b \in {smbios_build_tables(st, f, length,
                           [present |-> TRUE, max |-> RdU16(ep, Ep21MaxOff),
                            num |-> RdU16(ep, Ep21NumOff)], tmpOk, highOk)} })

\* static int smbios_30_setup_entry_point(f_tables, ep)
smbios_30_setup_entry_point(st, f, ep, tmpOk, highOk) ==
    LET length == RdU32(ep, Ep30MaxOff)
        \* from the return of smbios_build_tables on: b is what it returned
        finalize(b) ==
            LET ep1 == WrBytes(ep, Ep30MaxOff, LE32(b.length))
                ep2 == WrBytes(ep1, Ep30TAdrOff, LE32(b.address) \o LE32(0))
                ep3 == WrBytes(ep2, Ep30SumOff,
                               <<(RdU8(ep2, Ep30SumOff) - checksum(ep2, SizeofEp30)) % 256>>)
            IN  IF b.ret = 0
                THEN [ret |-> 0, path |-> "3.0", declared |-> length, ep |-> ep1,
                      st |-> st, b |-> b]
                ELSE TheOne({ [ret |-> 1, path |-> "3.0", declared |-> length, ep |-> final,
                               b |-> b,
                               st |-> copy_smbios_30([b.st EXCEPT !.mem = PosStack :> final],
                                                     PosStack)] :
                              final \in {ep3} })
    IN  TheOne({ finalize(b) :
                 b \in {smbios_build_tables(st, f, length,
                           [present |-> FALSE, max |-> 0, num |-> 0], tmpOk, highOk)} })

\* static int smbios_romfile_setup(void)
smbios_romfile_setup(st, anchor, f, tmpOk, highOk) ==
    LET ep   == anchor.data
        none == [ret |-> 0, path |-> "none", declared |-> 0, ep |-> ep, st |-> st,
                 b |-> [ret |-> 0, address |-> 0, length |-> 0, need_t0 |-> 0,
                        found0 |-> FALSE]]
    IN  IF ~anchor.present \/ ~f.present \/ Len(anchor.data) > SizeofEp21 THEN none
        ELSE IF Len(anchor.data) = SizeofEp21 /\ RdBytes(ep, 0, 4) = SMBIOS_21_SIGNATURE
        THEN smbios_21_setup_entry_point(st, f, ep, tmpOk, highOk)
        ELSE IF Len(anchor.data) = SizeofEp30 /\ valid_smbios_30_signature(ep)
        THEN smbios_30_setup_entry_point(st, f, ep, tmpOk, highOk)
        ELSE none

(***************************************************************************)
(* SpecBuild: the two romfiles hold any of the anchors and tables below,   *)
(* the f-segment is empty or partly taken, and smbios_romfile_setup is     *)
(* called once.                                                            *)
(***************************************************************************)
S1   == <<1, 4, 1, 0, 65, 0, 0>>       \* type 1, one string
S0   == <<0, 4, 3, 0, 0, 0>>           \* type 0, no string
S127 == <<127, 4, 2, 0, 0, 0>>         \* type 127, no string

BuildTables ==
    { [present |-> TRUE, first |-> h, run |-> 0, last |-> <<>>] :
        h \in { S127,                    \* one structure, none of type 0
                S1 \o S127,              \* two structures, none of type 0
                S0,                      \* a type 0 alone
                S1 \o S0 \o S127,        \* a type 0 among others
                S1 \o <<0, 4, 3, 0>> } } \* a type-0 header the walk stops before
    \cup { [present |-> TRUE, first |-> <<1, 4, 0, 0>>, run |-> n, last |-> <<0, 0>> \o S127] :
             n \in {65476, 65524} }      \* one long string: 65488 and 65536 bytes
    \cup { NoTable }

\* the anchors for a table of n bytes
BuildAnchors(n) ==
    { [present |-> TRUE, data |-> d] :
        d \in { MkEp21(len, n % 65536, 0, 4) : len \in {16, 17, 22, 31} }
          \cup { MkEp30(len, n, 0, 0) : len \in {16, 24} }
          \cup { Spoil(MkEp21(31, n % 65536, 0, 4), Ep21SumOff),     \* stale checksum
                 MkEp21(31, (n + 1) % 65536, 0, 4),                  \* another length
                 MkEp30(24, n + 1, 0, 0),                            \* another length
                 WrBytes(MkEp21(31, n % 65536, 0, 4), 0, BadSignature),
                 SubSeq(MkEp21(31, n % 65536, 0, 4), 1, SizeofEp30), \* 2.1 of 24 bytes
                 MkEp21(31, n % 65536, 0, 4) \o <<0>> } }            \* 32 bytes
    \cup { NoFile }

Versions == { <<49>>, <<49, 46, 49, 54>> }       \* "1", "1.16"

\* what other callers of malloc_fseg took before
Reserved(n) == <<[addr |-> FsegBase, name |-> "reserved", bytes |-> Fill(n, 0)]>>

InitBuild ==
    /\ IterIdle
    /\ ScanIdle
    /\ AcpiIdle
    /\ PirAddr = 0 /\ RsdpAddr = 0 /\ SMBios21Addr = 0 /\ SMBios30Addr = 0
    /\ call = NoCall
    /\ fseg \in {<<>>, Reserved(FsegSize), Reserved(FsegSize + FsegSize \div 2)}
    /\ high = <<>>
    /\ f_tables \in BuildTables
    /\ f_anchor \in BuildAnchors(FileSize(f_tables))
    /\ VERSION \in Versions
    /\ bd_last = NoBuild
    /\ legacy = FALSE
    /\ gt_last = NoTables

\* the state smbios_romfile_setup works on: the f-segment has room for
\* 2 * FsegSize bytes
BuildSt ==
    [PirAddr |-> PirAddr, RsdpAddr |-> RsdpAddr, SMBios21Addr |-> SMBios21Addr,
     SMBios30Addr |-> SMBios30Addr, fseg |-> fseg, zone |-> 2 * FsegSize,
     mem |-> <<>>, high |-> high]

\* void *smbios_get_tables(u32 *length), on the f-segment's blocks: ret is
\* the pointer returned, length what *length holds after the call (0 stands
\* for "not written").  The entry point is the last block allocated, and
\* copy_smbios_21 allocated only as many bytes as its length field says: a
\* field read beyond them reads unallocated f-segment memory, whose bytes
\* are junk.
smbios_get_tables(st, junk) ==
    LET ep30 == BlockAt(st.fseg, st.SMBios30Addr) \o Fill(SizeofEp30, junk)
        ep21 == BlockAt(st.fseg, st.SMBios21Addr) \o Fill(SizeofEp21, junk)
    IN  IF st.SMBios30Addr # 0 /\ RdU64(ep30, Ep30TAdrOff)[2] = 0
        THEN [ret |-> RdU64(ep30, Ep30TAdrOff)[1], length |-> RdU32(ep30, Ep30MaxOff)]
        ELSE IF st.SMBios21Addr # 0
        THEN [ret |-> RdU32(ep21, Ep21TAdrOff), length |-> RdU16(ep21, Ep21TLenOff)]
        ELSE [ret |-> 0, length |-> 0]

\* void smbios_setup(void): smbios_romfile_setup and, when it returns 0,
\* smbios_legacy_setup
SmbiosRomfileSetup ==
    /\ bd_last.op = "none"
    /\ \E tmpOk \in BOOLEAN, highOk \in BOOLEAN :
          \E r \in {smbios_romfile_setup(BuildSt, f_anchor, f_tables, tmpOk, highOk)} :
              /\ SMBios21Addr' = r.st.SMBios21Addr
              /\ SMBios30Addr' = r.st.SMBios30Addr
              /\ fseg' = r.st.fseg
              /\ high' = r.st.high
              /\ bd_last' = [op |-> "smbios_romfile_setup", ret |-> r.ret, path |-> r.path,
                             built |-> r.b.ret, found0 |-> r.b.found0,
                             need_t0 |-> r.b.need_t0, declared |-> r.declared,
                             length |-> r.b.length, address |-> r.b.address, ep |-> r.ep]
              /\ legacy' = (r.ret = 0)
    /\ UNCHANGED <<PirAddr, RsdpAddr, call, f_anchor, f_tables, VERSION, gt_last,
                   iterVars, scanVars, acpiVars>>

\* a caller asks for the tables after smbios_setup
SmbiosGetTables ==
    /\ bd_last.op # "none"
    /\ \E junk \in {0, 85} : \E t \in {smbios_get_tables(BuildSt, junk)} :
          gt_last' = [op |-> "smbios_get_tables", ret |-> t.ret, length |-> t.length]
    /\ UNCHANGED <<copyVars, iterVars, scanVars, acpiVars,
                   f_anchor, f_tables, VERSION, high, bd_last, legacy>>

NextBuild ==
    \/ SmbiosRomfileSetup
    \/ SmbiosGetTables

SpecBuild == InitBuild /\ [][NextBuild]_vars

\* the final blob smbios_build_tables left
BuiltBlob ==
    IF bd_last.address >= HighBase THEN BlockAt(high, bd_last.address)
    ELSE BlockAt(fseg, bd_last.address)

\* the three literal strings and the end of the string set
Type0Strings ==
    BIOS_NAME \o <<0>> \o VERSION \o <<0>> \o BIOS_DATE \o <<0>> \o <<0>>
Type0Size == SizeofType0 + Len(Type0Strings)

\* C6: when smbios_build_tables succeeds and the iterator found no type-0
\* structure in the supplied blob (and declared length + record size is
\* within 0xFFFF), the final blob is one type-0 record, with string indices
\* 1, 2, 3 for the three non-empty literal strings, followed by the supplied
\* bytes unchanged, and the recorded length is the number of bytes written;
\* when a type-0 structure was found the final blob is the supplied bytes.
C6_Type0Prepended ==
    bd_last.built = 1 =>
        LET blob     == BuiltBlob
            supplied == FileBytes(f_tables)
        IN  IF bd_last.found0
            THEN blob = supplied /\ bd_last.length = Len(supplied)
            ELSE bd_last.declared + Type0Size <= 65535 =>
                    /\ Len(blob) = Type0Size + Len(supplied)
                    /\ bd_last.length = Len(blob)
                    /\ SubSeq(blob, Type0Size + 1, Len(blob)) = supplied
                    /\ blob[1] = 0 /\ blob[2] = SizeofType0
                    /\ blob[5] = 1 /\ blob[6] = 2 /\ blob[9] = 3
                    /\ SubSeq(blob, SizeofType0 + 1, Type0Size) = Type0Strings
                    /\ BIOS_NAME # <<>> /\ VERSION # <<>> /\ BIOS_DATE # <<>>

\* C6's case: a table of two structures, none of type 0, was built into a
\* blob of more bytes and its 2.1 entry point registered
C6_BuiltWithType0 ==
    /\ bd_last.ret = 1
    /\ bd_last.need_t0 = 1
    /\ f_tables.first = S1 \o S127
    /\ bd_last.length > bd_last.declared
    /\ SMBios21Addr # 0

\* C9: a type-0 record is synthesized only if declared length + record size
\* <= 0xFFFF; otherwise the synthesis is skipped and the final length is the
\* declared length.
C9_SynthesisWithinCeiling ==
    bd_last.built = 1 =>
        /\ bd_last.need_t0 = 1 => bd_last.declared + Type0Size <= 65535
        /\ bd_last.declared + Type0Size > 65535 =>
              bd_last.need_t0 = 0 /\ bd_last.length = bd_last.declared

\* the same on the 2.1 path alone, where the declared length is 16 bits wide
C9_SynthesisWithinCeiling21 ==
    bd_last.built = 1 /\ bd_last.path = "2.1" =>
        /\ bd_last.need_t0 = 1 => bd_last.declared + Type0Size <= 65535
        /\ bd_last.declared + Type0Size > 65535 =>
              bd_last.need_t0 = 0 /\ bd_last.length = bd_last.declared

\* C10: after finalization, on the 2.1 path the first 16 bytes of the entry
\* point sum to 0 and so do the remaining length - 16 bytes; on the 3.0
\* path the bytes of the entry point's declared length sum to 0 (modulo 256).
C10_ChecksumsValid ==
    bd_last.ret = 1 =>
        IF bd_last.path = "2.1"
        THEN /\ checksum(bd_last.ep, 16) = 0
             /\ checksum(RdBytes(bd_last.ep, 16, RdU8(bd_last.ep, Ep21LenOff) - 16),
                         RdU8(bd_last.ep, Ep21LenOff) - 16) = 0
        ELSE checksum(bd_last.ep, RdU8(bd_last.ep, Ep30LenOff)) = 0

\* the same for the anchors whose length field is the entry point's size
C10_ChecksumsValidFullLength ==
    bd_last.ret = 1 /\ Len(bd_last.ep) = RdU8(bd_last.ep, IF bd_last.path = "2.1"
                                                          THEN Ep21LenOff ELSE Ep30LenOff) =>
        IF bd_last.path = "2.1"
        THEN /\ checksum(bd_last.ep, 16) = 0
             /\ checksum(RdBytes(bd_last.ep, 16, SizeofEp21 - 16), SizeofEp21 - 16) = 0
        ELSE checksum(bd_last.ep, SizeofEp30) = 0

\* C11: whenever smbios_romfile_setup reports success an entry point is
\* registered (SMBios21Addr or SMBios30Addr is non-null) and
\* smbios_get_tables returns the table just built and its length; and when
\* the tables were built but no entry point got registered (the copy routine
\* rejected it or found no room), setup reports failure and
\* smbios_legacy_setup runs.
C11_SuccessMeansRegistered ==
    /\ bd_last.ret = 1 =>
          /\ SMBios21Addr # 0 \/ SMBios30Addr # 0
          /\ gt_last.op = "smbios_get_tables" =>
                gt_last.ret = bd_last.address /\ gt_last.length = bd_last.length
    /\ bd_last.built = 1 /\ SMBios21Addr = 0 /\ SMBios30Addr = 0 =>
          bd_last.ret = 0 /\ legacy

\* what holds instead: smbios_legacy_setup runs exactly when
\* smbios_romfile_setup returned 0, and when an entry point did get
\* registered smbios_get_tables returns the table just built
C11_RegisteredTablesReturned ==
    /\ bd_last.op # "none" => (legacy <=> bd_last.ret = 0)
    /\ gt_last.op = "smbios_get_tables" =>
          /\ SMBios21Addr = 0 /\ SMBios30Addr = 0 => gt_last.ret = 0
          /\ SMBios21Addr # 0 \/ SMBios30Addr # 0 => bd_last.ret = 1
          /\ \/ SMBios30Addr # 0
             \/ SMBios21Addr # 0 /\ Len(BlockAt(fseg, SMBios21Addr)) = SizeofEp21
             => gt_last.ret = bd_last.address /\ gt_last.length = bd_last.length

\* a full 2.1 anchor, the tables built, no room for the entry point
C11_NoRoomForEntryPoint ==
    /\ bd_last.ret = 1
    /\ bd_last.path = "2.1"
    /\ RdU8(bd_last.ep, Ep21LenOff) = SizeofEp21
    /\ SMBios21Addr = 0
    /\ ~legacy
    /\ gt_last.op = "smbios_get_tables" /\ gt_last.ret = 0

====
